---- MODULE Spec2Model ----
(***************************************************************************)
(* Model of src/index.tsx: the App component's playback transport          *)
(* (stopPlayback, handlePlayStop, handleRateChange, handlePitchChange,     *)
(* handleGenerateSpeech, the mount effect's cleanup, the source nodes'     *)
(* onended callbacks) and the WAV container encoder pcmToWavBlob.          *)
(*                                                                         *)
(* Units: the rate is kept in tenths (the slider's step is 0.1), the pitch *)
(* in semitones, detune in cents, buffers in sample frames.                *)
(***************************************************************************)
EXTENDS Integers, Sequences, FiniteSets, TLC

\* ------------------------------------------------------------------ bounds

\* Source nodes created in one behaviour (createBufferSource calls).
MaxSessions == 2

\* Longest PCM sample array handed to pcmToWavBlob in WavSpec.
MaxSamples == 2

\* ------------------------------------------------------- program constants

headerSize == 44

bitsPerSample == 16

bytesPerSample == bitsPerSample \div 8

\* pcmToWavBlob(pcmData, 24000, 1) in handleGenerateSpeech.
TtsSampleRate == 24000

TtsChannels == 1

\* detune is in cents: source.detune.value = pitch * 100.
CentsPerSemitone == 100

\* useState(1.0) in tenths, useState(0).
InitialRate == 10

InitialPitch == 0

\* Values of the rate slider (min 0.5, max 2, step 0.1), in tenths.
Rates == {10, 20}

\* Values of the pitch slider (min -12, max 12, step 1): the whole octaves,
\* for which the detune factor 2^(cents/1200) is a rational number.
Pitches == {0, 12}

None == 0

\* ------------------------------------------------------ DataView modelling

Pow2(n) == 2 ^ n

\* The k-th byte (0 = least significant) of the two's complement form of v:
\* DataView.setUintN and setIntN reduce v modulo 2^N and store its bytes.
\* Floor division by 256^k followed by the remainder modulo 256 is that byte
\* for negative v too, without forming 2^32.
ByteOf(v, k) == (v \div Pow2(8 * k)) % 256

\* view.setUint32(offset, v, true)
LE32(v) == << ByteOf(v, 0), ByteOf(v, 1), ByteOf(v, 2), ByteOf(v, 3) >>

\* view.setUint16(offset, v, true) and view.setInt16(offset, v, true): the
\* same two bytes.
LE16(v) == << ByteOf(v, 0), ByteOf(v, 1) >>

\* Writing bytes bs into buffer buf at a zero-based offset.
SetBytes(buf, offset, bs) ==
  [i \in 1..Len(buf) |->
     IF i > offset /\ i <= offset + Len(bs) THEN bs[i - offset] ELSE buf[i]]

\* new ArrayBuffer(n): n zero bytes.
ArrayBuffer(n) == [i \in 1..n |-> 0]

\* Reading back a little-endian unsigned field (getUint32 / getUint16).
GetUint32(buf, offset) ==
  buf[offset + 1] + 256 * buf[offset + 2] + 65536 * buf[offset + 3]
    + 16777216 * buf[offset + 4]

GetUint16(buf, offset) == buf[offset + 1] + 256 * buf[offset + 2]

\* charCodeAt of the four markers.
RIFF == << 82, 73, 70, 70 >>

WAVE == << 87, 65, 86, 69 >>

FMT == << 102, 109, 116, 32 >>

DATA == << 100, 97, 116, 97 >>

RECURSIVE WriteSamples(_, _, _)
\* for (i = 0; i < pcmData.length; i++) view.setInt16(headerSize + i*2, ...)
WriteSamples(buf, pcm, i) ==
  IF i > Len(pcm) THEN buf
  ELSE WriteSamples(SetBytes(buf, headerSize + (i - 1) * 2, LE16(pcm[i])), pcm, i + 1)

\* A plausible slip: the RIFF size field carries the whole file size.
pcmToWavBlob_RiffSize(pcm, rate, channels) ==
  LET dataSize == Len(pcm) * bytesPerSample
      fileSize == headerSize + dataSize
  IN [type |-> "audio/wav",
      bytes |-> SetBytes(SetBytes(ArrayBuffer(fileSize), 4, LE32(fileSize)),
                         40, LE32(dataSize))]

\* pcmToWavBlob: no validation of its arguments, every write in order.
pcmToWavBlob(pcm, rate, channels) ==
  LET dataSize == Len(pcm) * bytesPerSample
      fileSize == headerSize + dataSize
      b0 == ArrayBuffer(fileSize)
      b1 == SetBytes(b0, 0, RIFF)
      b2 == SetBytes(b1, 4, LE32(fileSize - 8))
      b3 == SetBytes(b2, 8, WAVE)
      b4 == SetBytes(b3, 12, FMT)
      b5 == SetBytes(b4, 16, LE32(16))
      b6 == SetBytes(b5, 20, LE16(1))
      b7 == SetBytes(b6, 22, LE16(channels))
      b8 == SetBytes(b7, 24, LE32(rate))
      b9 == SetBytes(b8, 28, LE32(rate * channels * bytesPerSample))
      b10 == SetBytes(b9, 32, LE16(channels * bytesPerSample))
      b11 == SetBytes(b10, 34, LE16(bitsPerSample))
      b12 == SetBytes(b11, 36, DATA)
      b13 == SetBytes(b12, 40, LE32(dataSize))
  IN [type |-> "audio/wav", bytes |-> WriteSamples(b13, pcm, 1)]

\* audioContext.decodeAudioData on a PCM WAV file: the number of sample
\* frames is the payload size over the block alignment.
DecodeAudioData(bytes) == GetUint32(bytes, 40) \div GetUint16(bytes, 32)

\* ------------------------------------------------------------------- state

VARIABLES
  mounted,        \* the App component is mounted
  ctxState,       \* audioContextRef.current.state ("running" | "closed")
  loading,        \* useState: loading (each useState variable holds the value last given to its setter)
  rate,           \* useState: rate, in tenths
  pitch,          \* useState: pitch, in semitones
  audioBuffer,    \* useState: audioBuffer (None or its length in frames)
  isPlaying,      \* useState: isPlaying
  view,           \* the values of the last committed render, as the handlers' closures see them
  nodes,          \* every AudioBufferSourceNode created so far
  sourceNodeRef,  \* sourceNodeRef.current (None or an index into nodes)
  genpc,          \* position of handleGenerateSpeech ("idle" | "api" | "blob" | "decode")
  pcmData,        \* argument of pcmToWavBlob
  sampleRate,     \* argument of pcmToWavBlob
  numChannels,    \* argument of pcmToWavBlob
  wavBlob,        \* result of pcmToWavBlob (NoBlob before the call)
  uncaught        \* an exception escaped a handler

appVars == << mounted, ctxState, loading, rate, pitch,
              audioBuffer, isPlaying, view, nodes, sourceNodeRef, genpc,
              uncaught >>

wavVars == << pcmData, sampleRate, numChannels, wavBlob >>

vars == << mounted, ctxState, loading, rate, pitch,
           audioBuffer, isPlaying, view, nodes, sourceNodeRef, genpc,
           pcmData, sampleRate, numChannels, wavBlob, uncaught >>

\* No Blob has been built.
NoBlob == [type |-> "", bytes |-> << >>]

\* PCM payloads the speech API may return (little-endian 16-bit samples).
Responses == { << 0, 0 >>, << -1, 256 >> }

\* Sessions that have been started and have neither been stopped nor ended.
Active == { i \in 1..Len(nodes) : nodes[i].phase = "playing" }

\* ----------------------------------------------------------- source nodes

\* AudioScheduledSourceNode.stop(): a playing node stops rendering and its
\* 'ended' event is queued; on a node that already ended it does nothing.
NodeStop(n) ==
  IF n.phase = "playing" THEN [n EXCEPT !.phase = "ending", !.cause = "stop"]
  ELSE n

\* A plausible slip: onended is left attached.
StopPlayback_KeepHandler(ns, ref, playing) ==
  IF ref # None
    THEN [nodes |-> [ns EXCEPT ![ref] = [NodeStop(@) EXCEPT !.stopped = TRUE]],
          sourceNodeRef |-> None, isPlaying |-> FALSE, acted |-> TRUE,
          uncaught |-> FALSE]
    ELSE [nodes |-> ns, sourceNodeRef |-> ref, isPlaying |-> playing,
          acted |-> FALSE, uncaught |-> FALSE]

\* A plausible slip: the null check is missing, so that with no session the
\* property access on null throws a TypeError.
StopPlayback_NoGuard(ns, ref, playing) ==
  IF ref # None
    THEN [nodes |-> [ns EXCEPT ![ref] =
                       [NodeStop(@) EXCEPT !.onended = FALSE, !.stopped = TRUE]],
          sourceNodeRef |-> None, isPlaying |-> FALSE, acted |-> TRUE,
          uncaught |-> FALSE]
    ELSE [nodes |-> ns, sourceNodeRef |-> ref, isPlaying |-> playing,
          acted |-> FALSE, uncaught |-> TRUE]

\* stopPlayback, on the values it reads; "acted" tells whether the branch
\* that calls setIsPlaying(false) was taken.
StopPlayback(ns, ref, playing) ==
  IF ref # None
    THEN [nodes |-> [ns EXCEPT ![ref] =
                       [NodeStop(@) EXCEPT !.onended = FALSE, !.stopped = TRUE]],
          sourceNodeRef |-> None, isPlaying |-> FALSE, acted |-> TRUE,
          uncaught |-> FALSE]
    ELSE [nodes |-> ns, sourceNodeRef |-> ref, isPlaying |-> playing,
          acted |-> FALSE, uncaught |-> FALSE]

\* computedPlaybackRate = playbackRate * 2^(detune / 1200) of an
\* AudioBufferSourceNode, as the fraction Num/Den of tenths, for detune a
\* whole number of octaves.
ComputedRateNum(n) ==
  n.playbackRate * (IF n.detune >= 0 THEN Pow2(n.detune \div 1200) ELSE 1)

ComputedRateDen(n) == IF n.detune < 0 THEN Pow2((0 - n.detune) \div 1200) ELSE 1

\* Two nodes render for the same time: buffer / computedPlaybackRate agree.
SameDuration(a, b) ==
  a.buffer * ComputedRateDen(a) * ComputedRateNum(b)
    = b.buffer * ComputedRateDen(b) * ComputedRateNum(a)

\* Node a renders for k times as long as node b.
DurationRatio(a, b, k) ==
  a.buffer * ComputedRateDen(a) * ComputedRateNum(b)
    = k * b.buffer * ComputedRateDen(b) * ComputedRateNum(a)

\* -------------------------------------------------------------------- Init

Init ==
  /\ mounted = TRUE
  /\ ctxState = "running"
  /\ loading = FALSE
  /\ rate = InitialRate
  /\ pitch = InitialPitch
  /\ audioBuffer = None
  /\ isPlaying = FALSE
  /\ view = [isPlaying |-> FALSE, audioBuffer |-> None, loading |-> FALSE]
  /\ nodes = << >>
  /\ sourceNodeRef = None
  /\ genpc = "idle"
  /\ pcmData = << >>
  /\ sampleRate = TtsSampleRate
  /\ numChannels = TtsChannels
  /\ wavBlob = NoBlob
  /\ uncaught = FALSE

\* ----------------------------------------------------------------- actions

\* The render React commits for updates queued outside its event handlers
\* (onended, the continuations of handleGenerateSpeech); an unmounted
\* component is not rendered again.
Render ==
  /\ mounted
  /\ view # [isPlaying |-> isPlaying, audioBuffer |-> audioBuffer, loading |-> loading]
  /\ view' = [isPlaying |-> isPlaying, audioBuffer |-> audioBuffer, loading |-> loading]
  /\ UNCHANGED << mounted, ctxState, loading, rate, pitch,
                  audioBuffer, isPlaying, nodes, sourceNodeRef, genpc, uncaught >>
  /\ UNCHANGED wavVars

\* A plausible slip: the press starts a session whether or not one plays.
HandlePlayStop_AlwaysStart ==
  /\ mounted
  /\ view.audioBuffer # None
  /\ ~view.loading
  /\ Len(nodes) < MaxSessions
  /\ nodes' = Append(nodes,
                [buffer |-> view.audioBuffer, playbackRate |-> rate,
                 detune |-> pitch * CentsPerSemitone, phase |-> "playing",
                 cause |-> "none", onended |-> TRUE, stopped |-> FALSE,
                 fired |-> 0])
  /\ sourceNodeRef' = Len(nodes) + 1
  /\ isPlaying' = TRUE
  /\ view' = [view EXCEPT !.isPlaying = TRUE]
  /\ UNCHANGED << mounted, ctxState, loading, rate, pitch,
                  audioBuffer, genpc, uncaught >>
  /\ UNCHANGED wavVars

\* A plausible slip: a press while playing stops the session and starts a
\* new one at once.
HandlePlayStop_Restart ==
  /\ mounted
  /\ view.audioBuffer # None
  /\ ~view.loading
  /\ Len(nodes) < MaxSessions
  /\ LET r == StopPlayback(nodes, sourceNodeRef, isPlaying)
     IN /\ nodes' = Append(r.nodes,
                      [buffer |-> view.audioBuffer, playbackRate |-> rate,
                       detune |-> pitch * CentsPerSemitone, phase |-> "playing",
                       cause |-> "none", onended |-> TRUE, stopped |-> FALSE,
                       fired |-> 0])
        /\ uncaught' = (uncaught \/ r.uncaught)
  /\ sourceNodeRef' = Len(nodes) + 1
  /\ isPlaying' = TRUE
  /\ view' = [view EXCEPT !.isPlaying = TRUE]
  /\ UNCHANGED << mounted, ctxState, loading, rate, pitch, audioBuffer, genpc >>
  /\ UNCHANGED wavVars

\* handlePlayStop, the click handler of the play button, which is rendered
\* when audioBuffer && !loading. A suspended context, which the handler
\* resumes, only delays BufferEnds and is not told apart from a running one.
HandlePlayStop ==
  /\ mounted
  /\ view.audioBuffer # None
  /\ ~view.loading
  /\ IF view.isPlaying
       THEN LET r == StopPlayback(nodes, sourceNodeRef, isPlaying)
            IN /\ nodes' = r.nodes
               /\ sourceNodeRef' = r.sourceNodeRef
               /\ isPlaying' = r.isPlaying
               /\ uncaught' = (uncaught \/ r.uncaught)
               /\ view' = IF r.acted THEN [view EXCEPT !.isPlaying = FALSE] ELSE view
       ELSE /\ Len(nodes) < MaxSessions
            /\ nodes' = Append(nodes,
                          [buffer |-> view.audioBuffer, playbackRate |-> rate,
                           detune |-> pitch * CentsPerSemitone, phase |-> "playing",
                           cause |-> "none", onended |-> TRUE, stopped |-> FALSE,
                           fired |-> 0])
            /\ sourceNodeRef' = Len(nodes) + 1
            /\ isPlaying' = TRUE
            /\ view' = [view EXCEPT !.isPlaying = TRUE]
            /\ UNCHANGED uncaught
  /\ UNCHANGED << mounted, ctxState, loading, rate, pitch, audioBuffer, genpc >>
  /\ UNCHANGED wavVars

\* A plausible slip: the rate is stored without stopping the session.
HandleRateChange_NoStop ==
  /\ mounted
  /\ ~view.loading
  /\ \E r \in Rates : rate' = r
  /\ UNCHANGED << mounted, ctxState, loading, pitch,
                  audioBuffer, isPlaying, view, nodes, sourceNodeRef, genpc, uncaught >>
  /\ UNCHANGED wavVars

\* handleRateChange, the change handler of the rate slider (disabled while
\* loading).
HandleRateChange ==
  /\ mounted
  /\ ~view.loading
  /\ \E v \in Rates :
       LET r == StopPlayback(nodes, sourceNodeRef, isPlaying)
       IN /\ nodes' = r.nodes
          /\ sourceNodeRef' = r.sourceNodeRef
          /\ isPlaying' = r.isPlaying
          /\ uncaught' = (uncaught \/ r.uncaught)
          /\ view' = IF r.acted THEN [view EXCEPT !.isPlaying = FALSE] ELSE view
          /\ rate' = v
  /\ UNCHANGED << mounted, ctxState, loading, pitch,
                  audioBuffer, genpc >>
  /\ UNCHANGED wavVars

\* handlePitchChange, the change handler of the pitch slider (disabled while
\* loading).
HandlePitchChange ==
  /\ mounted
  /\ ~view.loading
  /\ \E v \in Pitches :
       LET r == StopPlayback(nodes, sourceNodeRef, isPlaying)
       IN /\ nodes' = r.nodes
          /\ sourceNodeRef' = r.sourceNodeRef
          /\ isPlaying' = r.isPlaying
          /\ uncaught' = (uncaught \/ r.uncaught)
          /\ view' = IF r.acted THEN [view EXCEPT !.isPlaying = FALSE] ELSE view
          /\ pitch' = v
  /\ UNCHANGED << mounted, ctxState, loading, rate,
                  audioBuffer, genpc >>
  /\ UNCHANGED wavVars

\* handleGenerateSpeech up to its first await; the button is disabled while
\* loading. textEmpty is !text.trim(): the early return sets only the error
\* message, which is not part of this model.
HandleGenerateSpeech ==
  /\ mounted
  /\ ~view.loading
  /\ \E textEmpty \in BOOLEAN :
       IF textEmpty
         THEN UNCHANGED << loading, audioBuffer, isPlaying, view, nodes,
                           sourceNodeRef, genpc, uncaught >>
         ELSE LET r == StopPlayback(nodes, sourceNodeRef, isPlaying)
              IN /\ loading' = TRUE
                 /\ nodes' = r.nodes
                 /\ sourceNodeRef' = r.sourceNodeRef
                 /\ isPlaying' = r.isPlaying
                 /\ uncaught' = (uncaught \/ r.uncaught)
                 /\ audioBuffer' = None
                 /\ view' = [isPlaying |-> IF r.acted THEN FALSE ELSE view.isPlaying,
                             audioBuffer |-> None, loading |-> TRUE]
                 /\ genpc' = "api"
  /\ UNCHANGED << mounted, ctxState, rate, pitch >>
  /\ UNCHANGED wavVars

\* The catch and finally blocks of handleGenerateSpeech: setError (not
\* modelled), setLoading(false); the locals go out of scope.
GenerateFails ==
  /\ loading' = FALSE
  /\ genpc' = "idle"
  /\ pcmData' = << >>
  /\ wavBlob' = NoBlob
  /\ UNCHANGED << sampleRate, numChannels >>

\* generateContent settles: it rejects, or carries no audio, or carries an
\* odd number of bytes (new Int16Array throws), or a PCM payload that is
\* encoded by pcmToWavBlob(pcmData, 24000, 1).
ApiResponds ==
  /\ genpc = "api"
  /\ \/ \E outcome \in {"rejected", "no audio", "odd length"} : GenerateFails
     \/ \E pcm \in Responses :
          /\ pcmData' = pcm
          /\ sampleRate' = TtsSampleRate
          /\ numChannels' = TtsChannels
          /\ wavBlob' = pcmToWavBlob(pcm, TtsSampleRate, TtsChannels)
          /\ genpc' = "blob"
          /\ UNCHANGED loading
  /\ UNCHANGED << mounted, ctxState, rate, pitch, audioBuffer,
                  isPlaying, view, nodes, sourceNodeRef, uncaught >>

\* wavBlob.arrayBuffer() resolves and decodeAudioData is called.
BlobRead ==
  /\ genpc = "blob"
  /\ genpc' = "decode"
  /\ UNCHANGED << mounted, ctxState, loading, rate, pitch,
                  audioBuffer, isPlaying, view, nodes, sourceNodeRef, uncaught >>
  /\ UNCHANGED wavVars

\* decodeAudioData settles: rejected by a closed context, else
\* setAudioBuffer(decodedAudioBuffer) and the finally block.
DecodeSettles ==
  /\ genpc = "decode"
  /\ IF ctxState = "closed"
       THEN GenerateFails /\ UNCHANGED audioBuffer
       ELSE /\ audioBuffer' = DecodeAudioData(wavBlob.bytes)
            /\ loading' = FALSE
            /\ genpc' = "idle"
            /\ pcmData' = << >>
            /\ wavBlob' = NoBlob
            /\ UNCHANGED << sampleRate, numChannels >>
  /\ UNCHANGED << mounted, ctxState, rate, pitch, isPlaying, view,
                  nodes, sourceNodeRef, uncaught >>

\* A running context renders a playing node to the end of its buffer: the
\* node's 'ended' event is queued.
BufferEnds ==
  /\ ctxState = "running"
  /\ \E i \in Active :
       nodes' = [nodes EXCEPT ![i] = [@ EXCEPT !.phase = "ending", !.cause = "natural"]]
  /\ UNCHANGED << mounted, ctxState, loading, rate, pitch,
                  audioBuffer, isPlaying, view, sourceNodeRef, genpc, uncaught >>
  /\ UNCHANGED wavVars

\* A plausible slip: the handler does not clear sourceNodeRef.current.
DispatchEnded_KeepRef ==
  /\ \E i \in 1..Len(nodes) :
       /\ nodes[i].phase = "ending"
       /\ IF nodes[i].onended
            THEN /\ nodes' = [nodes EXCEPT ![i] =
                                [@ EXCEPT !.phase = "ended", !.fired = @ + 1]]
                 /\ isPlaying' = FALSE
            ELSE /\ nodes' = [nodes EXCEPT ![i] = [@ EXCEPT !.phase = "ended"]]
                 /\ UNCHANGED isPlaying
  /\ UNCHANGED << mounted, ctxState, loading, rate, pitch,
                  audioBuffer, view, sourceNodeRef, genpc, uncaught >>
  /\ UNCHANGED wavVars

\* The queued 'ended' event of a node is dispatched; the handler that
\* handlePlayStop attached runs if it is still attached:
\* setIsPlaying(false); sourceNodeRef.current = null.
DispatchEnded ==
  /\ \E i \in 1..Len(nodes) :
       /\ nodes[i].phase = "ending"
       /\ IF nodes[i].onended
            THEN /\ nodes' = [nodes EXCEPT ![i] =
                                [@ EXCEPT !.phase = "ended", !.fired = @ + 1]]
                 /\ isPlaying' = FALSE
                 /\ sourceNodeRef' = None
            ELSE /\ nodes' = [nodes EXCEPT ![i] = [@ EXCEPT !.phase = "ended"]]
                 /\ UNCHANGED << isPlaying, sourceNodeRef >>
  /\ UNCHANGED << mounted, ctxState, loading, rate, pitch,
                  audioBuffer, view, genpc, uncaught >>
  /\ UNCHANGED wavVars

\* The cleanup of the mount effect: stop() on the current node, whose
\* onended stays attached, and close() on the context.
Unmount ==
  /\ mounted
  /\ mounted' = FALSE
  /\ nodes' = IF sourceNodeRef # None
                THEN [nodes EXCEPT ![sourceNodeRef] = NodeStop(@)]
                ELSE nodes
  /\ ctxState' = "closed"
  /\ UNCHANGED << loading, rate, pitch, audioBuffer,
                  isPlaying, view, sourceNodeRef, genpc, uncaught >>
  /\ UNCHANGED wavVars

Next ==
  \/ Render
  \/ HandlePlayStop
  \/ HandleRateChange
  \/ HandlePitchChange
  \/ HandleGenerateSpeech
  \/ ApiResponds
  \/ BlobRead
  \/ DecodeSettles
  \/ BufferEnds
  \/ DispatchEnded
  \/ Unmount

Spec == Init /\ [][Next]_vars

\* ------------------------------------------- the encoder on its own inputs

\* Sample values, sample rates and channel counts pcmToWavBlob is applied to.
Samples == {-1, 0, 256}

SampleRates == {-1, 0, 8000, 24000, 44100}

ChannelCounts == {-1, 0, 1, 2}

RECURSIVE SeqsUpTo(_, _)
\* All sequences over S of length at most n.
SeqsUpTo(S, n) ==
  IF n = 0 THEN { << >> }
  ELSE LET shorter == SeqsUpTo(S, n - 1)
       IN shorter \cup { Append(q, x) : q \in shorter, x \in S }

WavInit ==
  /\ mounted = TRUE
  /\ ctxState = "running"
  /\ loading = FALSE
  /\ rate = InitialRate
  /\ pitch = InitialPitch
  /\ audioBuffer = None
  /\ isPlaying = FALSE
  /\ view = [isPlaying |-> FALSE, audioBuffer |-> None, loading |-> FALSE]
  /\ nodes = << >>
  /\ sourceNodeRef = None
  /\ genpc = "idle"
  /\ uncaught = FALSE
  /\ pcmData \in SeqsUpTo(Samples, MaxSamples)
  /\ sampleRate \in SampleRates
  /\ numChannels \in ChannelCounts
  /\ wavBlob = NoBlob

\* One call pcmToWavBlob(pcmData, sampleRate, numChannels).
Encode ==
  /\ wavBlob = NoBlob
  /\ wavBlob' = pcmToWavBlob(pcmData, sampleRate, numChannels)
  /\ UNCHANGED << pcmData, sampleRate, numChannels >>
  /\ UNCHANGED appVars

WavNext == Encode

WavSpec == WavInit /\ [][WavNext]_vars

\* ------------------------------------------------------------------ claims

NodeIds == 1..Len(nodes)

\* C1: in every reachable state at most one source node has been started
\* and not yet stopped or ended.
C1_AtMostOneActive == Cardinality(Active) <= 1

\* A second session renders after the first one was stopped.
C1_Witness ==
  /\ Len(nodes) = 2
  /\ nodes[1].cause = "stop"
  /\ Active = {2}

\* C2: a session that stopPlayback has terminated never has its onended
\* handler run, also when the end-of-buffer event was already queued.
C2_StopExcludesFinished ==
  \A i \in NodeIds : nodes[i].stopped => nodes[i].fired = 0

\* The buffer ended, stopPlayback ran before the event was dispatched, and
\* the event has been dispatched since.
C2_Witness ==
  \E i \in NodeIds :
    /\ nodes[i].stopped
    /\ nodes[i].cause = "natural"
    /\ nodes[i].phase = "ended"

\* C3: a session that ended at the end of its buffer without stopPlayback
\* has had its handler run exactly once when its event has been dispatched,
\* no handler runs twice, and the step that runs it leaves isPlaying false
\* and sourceNodeRef cleared.
C3_NaturalCompletion ==
  /\ [](\A i \in NodeIds :
          /\ nodes[i].fired <= 1
          /\ (nodes[i].phase = "ended" /\ nodes[i].cause = "natural"
                /\ ~nodes[i].stopped) => nodes[i].fired = 1)
  /\ [][\A i \in NodeIds :
          (nodes[i].fired = 0 /\ nodes'[i].fired = 1)
            => (isPlaying' = FALSE /\ sourceNodeRef' = None)]_vars

\* A session has completed by itself and the engine is stopped.
C3_Witness ==
  /\ mounted
  /\ \E i \in NodeIds :
       /\ nodes[i].phase = "ended"
       /\ nodes[i].cause = "natural"
       /\ nodes[i].fired = 1
  /\ isPlaying = FALSE
  /\ sourceNodeRef = None

C5_StopIdempotent ==
  /\ [](sourceNodeRef = None =>
          LET r == StopPlayback(nodes, sourceNodeRef, isPlaying)
          IN /\ r.nodes = nodes
             /\ r.sourceNodeRef = sourceNodeRef
             /\ r.isPlaying = isPlaying
             /\ ~r.acted
             /\ ~r.uncaught)
  /\ [][(HandlePlayStop /\ view.isPlaying /\ sourceNodeRef = None)
          => UNCHANGED vars]_vars
  /\ [][(HandleRateChange /\ sourceNodeRef = None)
          => UNCHANGED << isPlaying, sourceNodeRef, nodes, pitch, audioBuffer,
                          view, uncaught >>]_vars
  /\ [][(HandlePitchChange /\ sourceNodeRef = None)
          => UNCHANGED << isPlaying, sourceNodeRef, nodes, rate, audioBuffer,
                          view, uncaught >>]_vars

\* The one session was created with the initial settings and stopped, and
\* both settings were changed since: the later of the two changes called
\* stopPlayback with no active session.
C5_Witness ==
  /\ Len(nodes) = 1
  /\ nodes[1].playbackRate = InitialRate
  /\ nodes[1].detune = InitialPitch * CentsPerSemitone
  /\ nodes[1].stopped
  /\ nodes[1].fired = 0
  /\ rate # InitialRate
  /\ pitch # InitialPitch
  /\ sourceNodeRef = None
  /\ uncaught = FALSE

\* C6: an active session's playbackRate is the rate setting and its detune
\* is the pitch setting times 100; a rate or pitch change leaves no session
\* active and creates none; made with no session it changes only the stored
\* setting.
C6_ParametersFixedWhilePlaying ==
  /\ [](\A i \in Active :
          /\ nodes[i].playbackRate = rate
          /\ nodes[i].detune = pitch * CentsPerSemitone)
  /\ [][(HandleRateChange \/ HandlePitchChange)
          => (Active' = {} /\ Len(nodes') = Len(nodes))]_vars
  /\ [][(HandleRateChange /\ sourceNodeRef = None)
          => UNCHANGED << mounted, ctxState, loading, pitch, audioBuffer,
                          isPlaying, view, nodes, sourceNodeRef, genpc >>]_vars
  /\ [][(HandlePitchChange /\ sourceNodeRef = None)
          => UNCHANGED << mounted, ctxState, loading, rate, audioBuffer,
                          isPlaying, view, nodes, sourceNodeRef, genpc >>]_vars

\* The first session was stopped, both settings were changed, and a second
\* session renders with the new settings.
C6_Witness ==
  /\ Len(nodes) = 2
  /\ nodes[1].stopped
  /\ nodes[1].playbackRate # nodes[2].playbackRate
  /\ nodes[1].detune # nodes[2].detune
  /\ Active = {2}

\* C7: for positive sample rate and channel count the Blob holds exactly
\* 44 + 2N bytes, its field at bytes 4-7 is 36 + 2N and its field at bytes
\* 40-43 is 2N, the length of the payload that follows the header.
C7_DeclaredSizes ==
  (wavBlob # NoBlob /\ sampleRate > 0 /\ numChannels > 0) =>
    /\ Len(wavBlob.bytes) = headerSize + 2 * Len(pcmData)
    /\ GetUint32(wavBlob.bytes, 4) = 36 + 2 * Len(pcmData)
    /\ GetUint32(wavBlob.bytes, 40) = 2 * Len(pcmData)
    /\ GetUint32(wavBlob.bytes, 40) = Len(wavBlob.bytes) - headerSize

\* A non-empty sample array has been encoded with valid format parameters.
C7_Witness ==
  /\ wavBlob # NoBlob
  /\ sampleRate > 0
  /\ numChannels > 0
  /\ Len(pcmData) >= 2

\* C8 as stated: with a sample rate or channel count of zero or less the
\* encoder fails with InvalidFormatError and produces no container bytes.
C8_RejectsInvalidFormat ==
  (wavBlob # NoBlob /\ (sampleRate <= 0 \/ numChannels <= 0)) =>
    (wavBlob.type = "InvalidFormatError" /\ wavBlob.bytes = << >>)

\* C9 as stated: sessions on the same buffer with the same playbackRate
\* render for the same time whatever their detune, and at detune 0 a session
\* at twice the rate renders for half the time.
C9_DurationIndependentOfPitch ==
  \A i \in NodeIds : \A j \in NodeIds :
    /\ (nodes[i].buffer = nodes[j].buffer
          /\ nodes[i].playbackRate = nodes[j].playbackRate)
         => SameDuration(nodes[i], nodes[j])
    /\ (nodes[i].buffer = nodes[j].buffer
          /\ nodes[i].detune = 0 /\ nodes[j].detune = 0
          /\ nodes[i].playbackRate = 2 * nodes[j].playbackRate)
         => DurationRatio(nodes[j], nodes[i], 2)

\* C10 as stated: once the component is unmounted no onended handler runs.
C10_NoCallbackAfterTeardown ==
  [][~mounted => \A i \in NodeIds : nodes'[i].fired = nodes[i].fired]_vars

====
